---------------------------- MODULE Spec2Model ----------------------------
(***************************************************************************)
(* Voice-to-text recording coordination: the hotkey detector               *)
(* (src/src/hotkey_detector.py), the application's session flag and        *)
(* recording worker (src/src/main.py) and the audio manager                *)
(* (src/src/audio_manager.py), as one state machine.                       *)
(*                                                                         *)
(* Threads of the program and how they appear here:                        *)
(*   - the pynput listener thread: KeyPress / KeyRelease, one event at a   *)
(*     time (the listener delivers events sequentially);                   *)
(*   - one handler thread per Trigger (threading.Thread(target=callback)): *)
(*     hpc[h] is its position in on_hotkey_pressed/start_recording/        *)
(*     stop_recording;                                                     *)
(*   - one worker thread per started recording: wpc[w] is its position in  *)
(*     _recording_worker and in the AudioManager calls it makes;           *)
(*   - the audio driver's callback thread of each started stream.          *)
(* A step of a thread is one access to shared state (an attribute read or  *)
(* write); positions are named after the source line they are about to     *)
(* execute.  Time is counted in units of 100 ms.                           *)
(***************************************************************************)
EXTENDS Integers, Sequences, FiniteSets, TLC

(***************************************************************************)
(* Bounds of the model.                                                    *)
(***************************************************************************)
\* The clock is advanced this many 100 ms ticks past its start at most.
MaxTicks == 7
\* Triggers delivered to the coordinator (handler threads created) at most.
MaxTriggers == 3
\* The user presses the hotkey only while fewer than this many handler and
\* worker threads are alive.
MaxAlive == 2
\* Chunks the audio callback appends to the buffer at most.
MaxChunks == 1
\* Triggers delivered at most in the runs with a shutdown.
MaxStopTriggers == 2
\* Blocks in the buffer handed to save_recording when it is checked on its own.
MaxSaveChunks == 3
\* Calls of test_audio_device made at most.
MaxDeviceTests == 1

(***************************************************************************)
(* Program constants.                                                      *)
(***************************************************************************)
\* self.debounce_delay = 0.5 (seconds), in 100 ms units.
DebounceDelay == 5

\* self.stream is None; a stream is named by the worker (1, 2, ...) that opened it.
NoStream == 0
\* self.sample_rate: the configured rate, 16000 Hz by default.
SampleRate == 16000
MicrosPerSecond == 1000000

\* Frame counts of the blocks the audio driver delivers.
ChunkFrames == {160}

\* The frames of a buffered chunk (indata.copy()): frame k of a block that
\* stream `stream` delivered during session `session` of the buffer.
Samples(chunk) ==
    [k \in 1..chunk.nframes |->
        [stream |-> chunk.stream, session |-> chunk.session, k |-> k]]

\* Faulty variant: only the last buffered chunk is written.
ConcatenateLast(chunks) ==
    IF chunks = << >> THEN << >> ELSE Samples(chunks[Len(chunks)])

\* np.concatenate(self.frames, axis=0): the frames of the chunks, one chunk
\* after the other in the order of the list.
RECURSIVE Concatenate(_)
Concatenate(chunks) ==
    IF chunks = << >>
    THEN << >>
    ELSE Samples(Head(chunks)) \o Concatenate(Tail(chunks))

\* An optional file path: no file (None), or the file written by
\* sf.write(temp_file, recording, self.sample_rate), holding the frames of
\* `recording`.
NoFile == << >>
File(recording) == recording

\* save_recording, line 167: duration = len(recording) / self.sample_rate,
\* in microseconds (exact for the block sizes of this model).
Duration(recording) == (Len(recording) * MicrosPerSecond) \div SampleRate

(***************************************************************************)
(* Strings are sequences of one-character strings, so that lower(),        *)
(* replace(), split(), strip() and the `in` substring test are computed as *)
(* Python computes them.                                                   *)
(***************************************************************************)
LowerChar(c) ==
    CASE c = "A" -> "a" [] c = "C" -> "c" [] c = "V" -> "v" [] c = "X" -> "x"
      [] OTHER -> c

\* str.lower()
Lower(s) == [i \in 1..Len(s) |-> LowerChar(s[i])]

\* str.replace(c, '')
RemoveChar(s, c) == SelectSeq(s, LAMBDA x : x # c)

\* str.split(sep): the pieces between the separators, empty pieces kept
RECURSIVE Split(_, _)
Split(s, sep) ==
    IF \A i \in 1..Len(s) : s[i] # sep
    THEN << s >>
    ELSE LET i == CHOOSE k \in 1..Len(s) :
                      s[k] = sep /\ \A j \in 1..(k - 1) : s[j] # sep
         IN  << SubSeq(s, 1, i - 1) >> \o Split(SubSeq(s, i + 1, Len(s)), sep)

\* str.strip()
RECURSIVE Strip(_)
Strip(s) ==
    IF s # << >> /\ Head(s) = " " THEN Strip(Tail(s))
    ELSE IF s # << >> /\ s[Len(s)] = " " THEN Strip(SubSeq(s, 1, Len(s) - 1))
    ELSE s

\* sub in s
Contains(s, sub) ==
    \E i \in 0..(Len(s) - Len(sub)) : SubSeq(s, i + 1, i + Len(sub)) = sub

(***************************************************************************)
(* Keys.  pynput's Key members are written "Key.<name>"; a character key   *)
(* is identified in pressed_keys by its lower-cased character.             *)
(***************************************************************************)
CtrlL == "Key.ctrl_l"
CtrlR == "Key.ctrl_r"
AltL == "Key.alt_l"
AltR == "Key.alt_r"
ShiftL == "Key.shift_l"
ShiftR == "Key.shift_r"
Cmd == "Key.cmd"
Space == "Key.space"
Tab == "Key.tab"
Enter == "Key.enter"

\* Keys whose events the keyboard delivers in this model: special keys, and
\* character keys by the character they produce ("V": v typed with shift).
SpecialEventKeys == {CtrlL, CtrlR, AltL, ShiftL}
CharEventKeys == {"v", "V", "x"}
EventKeys == SpecialEventKeys \cup CharEventKeys

\* The words _parse_hotkey and _check_hotkey_combination compare with.
StrCtrl == << "c", "t", "r", "l" >>
StrAlt == << "a", "l", "t" >>
StrShift == << "s", "h", "i", "f", "t" >>
StrCmd == << "c", "m", "d" >>
StrSuper == << "s", "u", "p", "e", "r" >>
StrSpace == << "s", "p", "a", "c", "e" >>
StrTab == << "t", "a", "b" >>
StrEnter == << "e", "n", "t", "e", "r" >>
StrV == << "v" >>

\* config.get('hotkey', '<ctrl>+<alt>+v'): the default hotkey string
DefaultHotkey ==
    << "<", "c", "t", "r", "l", ">", "+", "<", "a", "l", "t", ">", "+", "v" >>

\* Hotkey strings the configuration may hold in this model.
HotkeyConfigs ==
    { DefaultHotkey,
      \* Ctrl+Alt+V
      << "C", "t", "r", "l", "+", "A", "l", "t", "+", "V" >>,
      \* <ctrl>+<alt>+<shift>+v
      << "<", "c", "t", "r", "l", ">", "+", "<", "a", "l", "t", ">", "+",
         "<", "s", "h", "i", "f", "t", ">", "+", "v" >>,
      \* <ctrl>+<shift>+x
      << "<", "c", "t", "r", "l", ">", "+",
         "<", "s", "h", "i", "f", "t", ">", "+", "x" >>,
      \* <alt> + x
      << "<", "a", "l", "t", ">", " ", "+", " ", "x" >>,
      \* f13 (no part of it is recognised)
      << "f", "1", "3" >> }

\* One part of the hotkey string to the keys _parse_hotkey adds for it.
PartKeys(part) ==
    CASE part = StrCtrl -> {CtrlL, CtrlR}
      [] part = StrAlt -> {AltL, AltR}
      [] part = StrShift -> {ShiftL, ShiftR}
      [] part = StrCmd \/ part = StrSuper -> {Cmd}
      [] part = StrSpace -> {Space}
      [] part = StrTab -> {Tab}
      [] part = StrEnter -> {Enter}
      [] OTHER -> IF Len(part) = 1 THEN {part[1]} ELSE {}

\* HotkeyDetector._parse_hotkey
ParseHotkey(hotkey) ==
    LET parts == Split(RemoveChar(RemoveChar(Lower(hotkey), "<"), ">"), "+")
    IN  UNION { PartKeys(Strip(parts[i])) : i \in 1..Len(parts) }

\* key.char.lower() for a character key, the key itself otherwise
PressedId(key) == IF key \in CharEventKeys THEN LowerChar(key) ELSE key

VARIABLES
    \* HotkeyDetector
    hotkey_string,      \* self.hotkey_string
    required_keys,      \* self.required_keys
    pressed_keys,       \* self.pressed_keys
    last_trigger_time,  \* self.last_trigger_time
    callback,           \* self.callback is set (TRUE) or None (FALSE)
    now,                \* time.time(), in 100 ms units
    \* VoiceToTextApp
    is_recording,       \* self.is_recording
    running,            \* self.running
    hpc,                \* handler threads: position of each, in creation order
    wpc,                \* worker threads: position of each, in creation order
    waudio,             \* worker's local audio_file: None or the artifact saved
    wlog,               \* worker's calls so far, in order (dropped when it exits)
    \* AudioManager
    recording,          \* self.recording
    frames,             \* self.frames: the chunks buffered, in arrival order
    stream,             \* self.stream: None or the stream (named by its opener)
    streamState,        \* per worker, its stream: "none" | "open" | "active" |
                        \*   "stopped" | "closed"
    files,              \* the temporary files that exist, named by their
                        \*   writer
    \* VoiceToTextApp.stop, HotkeyDetector listener, ServiceManager
    spc,                \* the call of VoiceToTextApp.stop(): "idle" (not called),
                        \*   its position, or "done"
    mpc,                \* _main_loop: "loop" | "exited"
    listening,          \* the keyboard listener runs (HotkeyDetector.running)
    svc_running,        \* ServiceManager.running
    upc,                \* the call of HotkeyDetector.update_hotkey: "idle" (none
                        \*   in progress) or its position "u180"
    device_tests,       \* one record per call of test_audio_device made so far
    \* history
    signalled,          \* a SIGTERM / SIGINT was handled
    triggersAtStop,     \* the number of Triggers emitted when stop() began
    recordingAtStop,    \* the workers that were recording when stop() began
    triggers,           \* the times of the Triggers emitted so far
    resets,             \* the workers whose start_recording reset the buffer,
                        \*   in order: session n of the buffer begins with
                        \*   the n-th reset
    lastEvent           \* what the last key-down did: "none" | "fired" |
                        \*   "suppressed" | "unmatched"

detVars == << hotkey_string, required_keys, pressed_keys, last_trigger_time,
              callback, now >>
histVars == << triggers, lastEvent, resets >>
keyVars == << detVars, histVars >>
appVars == << is_recording, running, hpc >>
workerVars == << wpc, waudio, wlog >>
audioVars == << recording, frames, stream, streamState, files >>
shutVars == << spc, mpc, listening, svc_running, signalled, triggersAtStop,
              recordingAtStop, upc, device_tests >>
vars == << detVars, histVars, appVars, workerVars, audioVars, shutVars >>

\* The clock at construction: time.time() is seconds since 1970, far more
\* than the debounce delay after the initial last_trigger_time of 0.
ClockStart == DebounceDelay

\* Faulty variant: the debounce test written with > instead of >=.
TriggerCallbackStrict(current_time) ==
    IF current_time - last_trigger_time > DebounceDelay
    THEN /\ last_trigger_time' = current_time
         /\ triggers' = Append(triggers, current_time)
         /\ lastEvent' = "fired"
         /\ hpc' = IF callback THEN Append(hpc, "h85") ELSE hpc
    ELSE /\ lastEvent' = "suppressed"
         /\ UNCHANGED << last_trigger_time, triggers, hpc >>

\* Faulty variant: last_trigger_time is stamped only when a callback is registered.
TriggerCallbackStampIfCallback(current_time) ==
    IF current_time - last_trigger_time >= DebounceDelay
    THEN /\ last_trigger_time' = IF callback THEN current_time ELSE last_trigger_time
         /\ triggers' = Append(triggers, current_time)
         /\ lastEvent' = "fired"
         /\ hpc' = IF callback THEN Append(hpc, "h85") ELSE hpc
    ELSE /\ lastEvent' = "suppressed"
         /\ UNCHANGED << last_trigger_time, triggers, hpc >>

\* HotkeyDetector._trigger_callback(current_time)
TriggerCallback(current_time) ==
    IF current_time - last_trigger_time >= DebounceDelay
    THEN /\ last_trigger_time' = current_time
         /\ triggers' = Append(triggers, current_time)
         /\ lastEvent' = "fired"
         /\ hpc' = IF callback THEN Append(hpc, "h85") ELSE hpc
    ELSE /\ lastEvent' = "suppressed"
         /\ UNCHANGED << last_trigger_time, triggers, hpc >>

\* The firing condition of _check_hotkey_combination (lines 121-128) on the
\* pressed-key set `pressed`: the matched_keys / required_count computed in
\* lines 87-118 are never read.
CombinationDetected(hotkey, pressed) ==
    LET hotkey_lower == Lower(hotkey)
        ctrl_pressed == CtrlL \in pressed \/ CtrlR \in pressed
        alt_pressed == AltL \in pressed \/ AltR \in pressed
    IN  /\ Contains(hotkey_lower, StrCtrl)
        /\ Contains(hotkey_lower, StrAlt)
        /\ Contains(hotkey_lower, StrV)
        /\ ctrl_pressed /\ alt_pressed /\ "v" \in pressed

\* HotkeyDetector._check_hotkey_combination, with pressed_keys already updated
CheckHotkeyCombination ==
    IF CombinationDetected(hotkey_string, pressed_keys')
    THEN TriggerCallback(now)
    ELSE /\ lastEvent' = "unmatched"
         /\ UNCHANGED << last_trigger_time, triggers, hpc >>

\* HotkeyDetector._on_press(key)
KeyPress(key) ==
    /\ listening
    /\ pressed_keys' = pressed_keys \cup {PressedId(key)}
    /\ CheckHotkeyCombination
    /\ UNCHANGED << hotkey_string, required_keys, callback, now, is_recording,
                    running, workerVars, audioVars, shutVars, resets >>

\* Faulty variant: a key-up also forgets the time of the last Trigger.
KeyReleaseResetsTrigger(key) ==
    /\ listening
    /\ pressed_keys' = pressed_keys \ {PressedId(key)}
    /\ last_trigger_time' = 0
    /\ UNCHANGED << hotkey_string, required_keys, callback,
                    now, histVars, appVars, workerVars, audioVars, shutVars >>

\* HotkeyDetector._on_release(key)
KeyRelease(key) ==
    /\ listening
    /\ pressed_keys' = pressed_keys \ {PressedId(key)}
    /\ UNCHANGED << hotkey_string, required_keys, last_trigger_time, callback,
                    now, histVars, appVars, workerVars, audioVars, shutVars >>

\* HotkeyDetector.set_callback(callback)
SetCallback(cb) ==
    /\ callback # cb
    /\ callback' = cb
    /\ UNCHANGED << hotkey_string, required_keys, pressed_keys,
                    last_trigger_time, now, histVars, appVars, workerVars,
                    audioVars, shutVars >>

\* 100 ms pass.
Tick ==
    /\ now < ClockStart + MaxTicks
    /\ now' = now + 1
    /\ UNCHANGED << hotkey_string, required_keys, pressed_keys,
                    last_trigger_time, callback, histVars, appVars,
                    workerVars, audioVars, shutVars >>

\* HotkeyDetector.__init__ with the configured hotkey string `hotkey`
DetectorInit(hotkey) ==
    /\ hotkey_string = hotkey
    /\ required_keys = ParseHotkey(hotkey)
    /\ pressed_keys = {}
    /\ last_trigger_time = 0
    /\ callback = TRUE
    /\ now = ClockStart

\* VoiceToTextApp.__init__ (the application state), AudioManager.__init__ and
\* VoiceToTextApp.start: the listener is started and the main loop runs
AppInit ==
    /\ is_recording = FALSE
    /\ running = TRUE
    /\ hpc = << >>
    /\ wpc = << >>
    /\ waudio = << >>
    /\ wlog = << >>
    /\ recording = FALSE
    /\ frames = << >>
    /\ stream = NoStream
    /\ streamState = << >>
    /\ files = {}
    /\ triggers = << >>
    /\ lastEvent = "none"
    /\ resets = << >>
    /\ spc = "idle"
    /\ mpc = "loop"
    /\ listening = TRUE
    /\ signalled = FALSE
    /\ triggersAtStop = 0
    /\ recordingAtStop = {}
    /\ upc = "idle"
    /\ device_tests = << >>

InitHotkey ==
    /\ \E hotkey \in HotkeyConfigs : DetectorInit(hotkey)
    /\ AppInit
    /\ svc_running = FALSE

NextHotkey ==
    \/ \E key \in EventKeys : KeyPress(key)
    \/ \E key \in EventKeys : KeyRelease(key)
    \/ \E cb \in BOOLEAN : SetCallback(cb)
    \/ Tick

\* The detector alone: the listener thread, the clock and the configuration.
\* Handler threads are created and not scheduled.
SpecHotkey == InitHotkey /\ [][NextHotkey]_vars

(***************************************************************************)
(* The coordinator: handler threads (VoiceToTextApp.on_hotkey_pressed).    *)
(***************************************************************************)
Handlers == 1..Len(hpc)
Workers == 1..Len(wpc)

HAt(h, pc) == hpc[h] = pc
HGoto(h, pc) == hpc' = [hpc EXCEPT ![h] = pc]
WAt(w, pc) == wpc[w] = pc
WGoto(w, pc) == wpc' = [wpc EXCEPT ![w] = pc]
WLog(w, events) == wlog' = [wlog EXCEPT ![w] = @ \o events]

\* A worker at one of these positions is in the pipeline: in transcribe (line
\* 137), in insert_text (line 143) or in the clipboard fallback (line 151).
InPipeline == {"w137", "w143", "w151"}

\* Faulty variant: the handler waits until no worker is in the pipeline.
HandlerCheckWaits(h) ==
    /\ HAt(h, "h85")
    /\ \A w \in 1..Len(wpc) : wpc[w] \notin InPipeline
    /\ HGoto(h, IF is_recording THEN "p110" ELSE "s94")
    /\ UNCHANGED << keyVars, is_recording, running, workerVars, audioVars >>

\* on_hotkey_pressed, line 85: if not self.is_recording
HandlerCheck(h) ==
    /\ HAt(h, "h85")
    /\ HGoto(h, IF is_recording THEN "p110" ELSE "s94")
    /\ UNCHANGED << keyVars, is_recording, running, workerVars, audioVars >>

\* start_recording, line 94: if self.is_recording: return
StartRecordingCheck(h) ==
    /\ HAt(h, "s94")
    /\ HGoto(h, IF is_recording THEN "done" ELSE "s99")
    /\ UNCHANGED << keyVars, is_recording, running, workerVars, audioVars >>

\* start_recording, line 99: self.is_recording = True
StartRecordingSet(h) ==
    /\ HAt(h, "s99")
    /\ is_recording' = TRUE
    /\ HGoto(h, "s102")
    /\ UNCHANGED << keyVars, running, workerVars, audioVars >>

\* start_recording, lines 102-106: the worker thread is created and started
StartRecordingSpawn(h) ==
    /\ HAt(h, "s102")
    /\ wpc' = Append(wpc, "w123")
    /\ waudio' = Append(waudio, NoFile)
    /\ wlog' = Append(wlog, << >>)
    /\ streamState' = Append(streamState, "none")
    /\ HGoto(h, "done")
    /\ UNCHANGED << keyVars, is_recording, running, recording, frames, stream,
                    files >>

\* stop_recording, line 110: if not self.is_recording: return
StopRecordingCheck(h) ==
    /\ HAt(h, "p110")
    /\ HGoto(h, IF is_recording THEN "p115" ELSE "done")
    /\ UNCHANGED << keyVars, is_recording, running, workerVars, audioVars >>

\* stop_recording, line 115: self.is_recording = False
StopRecordingSet(h) ==
    /\ HAt(h, "p115")
    /\ is_recording' = FALSE
    /\ HGoto(h, "done")
    /\ UNCHANGED << keyVars, running, workerVars, audioVars >>

HandlerStep(h) ==
    /\ \/ HandlerCheck(h)
       \/ StartRecordingCheck(h)
       \/ StartRecordingSet(h)
       \/ StartRecordingSpawn(h)
       \/ StopRecordingCheck(h)
       \/ StopRecordingSet(h)
    /\ UNCHANGED shutVars

(***************************************************************************)
(* AudioManager.start_recording, called by worker w.                       *)
(***************************************************************************)
\* Faulty variant: the worker gives up when the start fails.
StartReturnsAbort(w, ok, events) ==
    /\ WGoto(w, IF ok THEN "w126" ELSE "w168")
    /\ WLog(w, events)

\* The call returns to _recording_worker (its result `ok` is not read there).
StartReturns(w, ok, events) ==
    /\ WGoto(w, "w126")
    /\ WLog(w, events)

\* Faulty variant: start_recording does not test the recording flag.
StartRejectedNever == FALSE

\* start_recording, line 56: if self.recording (return False, line 58)
StartRejected == recording

\* _recording_worker line 123 calls start_recording; line 56: if self.recording
AudioStartCheck(w) ==
    /\ WAt(w, "w123")
    /\ IF StartRejected
       THEN StartReturns(w, FALSE, << "start" >>)
       ELSE WGoto(w, "a64") /\ WLog(w, << "start" >>)
    /\ UNCHANGED << keyVars, appVars, waudio, audioVars >>

\* Faulty variant: start_recording keeps the chunks buffered so far.
BufferAtStartKept == frames

\* line 64: the value given to self.frames
BufferAtStart == << >>

\* line 64: self.frames = []
AudioStartReset(w) ==
    /\ WAt(w, "a64")
    /\ frames' = BufferAtStart
    /\ resets' = Append(resets, w)
    /\ WGoto(w, "a65")
    /\ UNCHANGED << detVars, triggers, lastEvent, appVars, waudio, wlog,
                    recording, stream, streamState, files >>

\* line 65: self.recording = True
AudioStartSetRecording(w) ==
    /\ WAt(w, "a65")
    /\ recording' = TRUE
    /\ WGoto(w, "a68")
    /\ UNCHANGED << keyVars, appVars, waudio, wlog, frames, stream,
                    streamState, files >>

\* lines 68-74: self.stream = sd.InputStream(...); opening the device may fail
AudioStartOpen(w) ==
    /\ WAt(w, "a68")
    /\ \/ /\ stream' = w
          /\ streamState' = [streamState EXCEPT ![w] = "open"]
          /\ WGoto(w, "a77")
       \/ /\ WGoto(w, "a87")
          /\ UNCHANGED << stream, streamState >>
    /\ UNCHANGED << keyVars, appVars, waudio, wlog, recording, frames, files >>

\* line 77: self.stream.start(), then play_sound and return True.  Starting
\* raises when self.stream is None or closed, or when the device refuses.
AudioStartStream(w) ==
    /\ WAt(w, "a77")
    /\ IF stream = NoStream \/ streamState[stream] = "closed"
       THEN WGoto(w, "a87") /\ UNCHANGED << wlog, streamState >>
       ELSE \/ /\ streamState' = [streamState EXCEPT ![stream] = "active"]
               /\ StartReturns(w, TRUE, << >>)
            \/ WGoto(w, "a87") /\ UNCHANGED << wlog, streamState >>
    /\ UNCHANGED << keyVars, appVars, waudio, recording, frames, stream, files >>

\* Faulty variant: the except clause leaves the recording flag set.
AudioStartExceptKeepsFlag(w) ==
    /\ WAt(w, "a87")
    /\ WGoto(w, "a88")
    /\ UNCHANGED << keyVars, appVars, waudio, wlog, audioVars >>

\* except, line 87: self.recording = False
AudioStartExcept(w) ==
    /\ WAt(w, "a87")
    /\ recording' = FALSE
    /\ WGoto(w, "a88")
    /\ UNCHANGED << keyVars, appVars, waudio, wlog, frames, stream,
                    streamState, files >>

\* except, line 88: if self.stream
AudioStartExceptCheck(w) ==
    /\ WAt(w, "a88")
    /\ IF stream = NoStream
       THEN StartReturns(w, FALSE, << >>)
       ELSE WGoto(w, "a90") /\ UNCHANGED wlog
    /\ UNCHANGED << keyVars, appVars, waudio, audioVars >>

\* except, lines 89-92: self.stream.close(), any error passed over
AudioStartExceptClose(w) ==
    /\ WAt(w, "a90")
    /\ streamState' = IF stream = NoStream THEN streamState
                      ELSE [streamState EXCEPT ![stream] = "closed"]
    /\ WGoto(w, "a93")
    /\ UNCHANGED << keyVars, appVars, waudio, wlog, recording, frames, stream,
                    files >>

\* except, lines 93-94: self.stream = None; return False
AudioStartExceptClear(w) ==
    /\ WAt(w, "a93")
    /\ stream' = NoStream
    /\ StartReturns(w, FALSE, << >>)
    /\ UNCHANGED << keyVars, appVars, waudio, recording, frames, streamState,
                    files >>

(***************************************************************************)
(* _recording_worker's wait, line 126.                                     *)
(***************************************************************************)
\* while self.is_recording and self.running: the loop goes on
WorkerWaits == is_recording /\ running

\* line 126 false: line 130 calls stop_recording
WorkerLoopExit(w) ==
    /\ WAt(w, "w126")
    /\ ~WorkerWaits
    /\ WGoto(w, "w130")
    /\ UNCHANGED << keyVars, appVars, waudio, wlog, audioVars >>

\* Faulty variant: the worker does not test what stop_recording returned.
StopReturnsUntested(w, file, exists, events) ==
    /\ waudio' = [waudio EXCEPT ![w] = file]
    /\ WGoto(w, "w137")
    /\ WLog(w, events)

(***************************************************************************)
(* AudioManager.stop_recording and save_recording, called by worker w.     *)
(***************************************************************************)
\* stop_recording returns `file` to line 130; line 132 tests it:
\* if audio_file and os.path.exists(audio_file)
StopReturns(w, file, exists, events) ==
    /\ waudio' = [waudio EXCEPT ![w] = file]
    /\ WGoto(w, IF file # NoFile /\ exists THEN "w137" ELSE "w168")
    /\ WLog(w, events)

\* stop_recording, line 98: if not self.recording (return None, line 100)
StopRejected == ~recording

\* line 98: if not self.recording: return None
AudioStopCheck(w) ==
    /\ WAt(w, "w130")
    /\ IF ~StopRejected
       THEN WGoto(w, "b106") /\ WLog(w, << "stop" >>) /\ UNCHANGED waudio
       ELSE StopReturns(w, NoFile, FALSE, << "stop" >>)
    /\ UNCHANGED << keyVars, appVars, audioVars >>

\* line 106: if self.stream
AudioStopCheckStream(w) ==
    /\ WAt(w, "b106")
    /\ WGoto(w, IF stream = NoStream THEN "b111" ELSE "b107")
    /\ UNCHANGED << keyVars, appVars, waudio, wlog, audioVars >>

\* line 107: self.stream.stop(); it raises when self.stream is None or closed,
\* or when the device reports an error
AudioStopStream(w) ==
    /\ WAt(w, "b107")
    /\ IF stream = NoStream \/ streamState[stream] = "closed"
       THEN WGoto(w, "b128") /\ UNCHANGED streamState
       ELSE \/ /\ streamState' = [streamState EXCEPT ![stream] = "stopped"]
               /\ WGoto(w, "b108")
            \/ WGoto(w, "b128") /\ UNCHANGED streamState
    /\ UNCHANGED << keyVars, appVars, waudio, wlog, recording, frames, stream,
                    files >>

\* line 108: self.stream.close(); it raises when self.stream is None or closed
AudioStopClose(w) ==
    /\ WAt(w, "b108")
    /\ IF stream = NoStream \/ streamState[stream] = "closed"
       THEN WGoto(w, "b128") /\ UNCHANGED streamState
       ELSE /\ streamState' = [streamState EXCEPT ![stream] = "closed"]
            /\ WGoto(w, "b109")
    /\ UNCHANGED << keyVars, appVars, waudio, wlog, recording, frames, stream,
                    files >>

\* line 109: self.stream = None
AudioStopClear(w) ==
    /\ WAt(w, "b109")
    /\ stream' = NoStream
    /\ WGoto(w, "b111")
    /\ UNCHANGED << keyVars, appVars, waudio, wlog, recording, frames,
                    streamState, files >>

\* line 111: self.recording = False (then play_sound, and save_recording)
AudioStopSetRecording(w) ==
    /\ WAt(w, "b111")
    /\ recording' = FALSE
    /\ WGoto(w, "s142")
    /\ UNCHANGED << keyVars, appVars, waudio, wlog, frames, stream,
                    streamState, files >>

\* save_recording, line 142: if not self.frames: return None
SaveNoFrames == frames = << >>

\* save_recording, line 142
SaveCheck(w) ==
    /\ WAt(w, "s142")
    /\ IF SaveNoFrames
       THEN StopReturns(w, NoFile, FALSE, << >>)
       ELSE WGoto(w, "s148") /\ UNCHANGED << waudio, wlog >>
    /\ UNCHANGED << keyVars, appVars, audioVars >>

\* save_recording, lines 148-176: np.concatenate(self.frames) (it raises on an
\* empty list; an empty result returns None, line 151); the temporary file is created (lines 156-160, delete=False)
\* and written (line 163) and its name returned; or creating it fails; or it
\* is created and writing it fails (lines 170-176), which returns None and
\* leaves the file
SaveWrite(w) ==
    /\ WAt(w, "s148")
    /\ IF frames = << >> \/ Len(Concatenate(frames)) = 0
       THEN StopReturns(w, NoFile, FALSE, << >>) /\ UNCHANGED files
       ELSE \/ /\ files' = files \cup {w}
               /\ StopReturns(w, File(Concatenate(frames)), TRUE, << >>)
            \/ StopReturns(w, NoFile, FALSE, << >>) /\ UNCHANGED files
            \/ /\ files' = files \cup {w}
               /\ StopReturns(w, NoFile, FALSE, << >>)
    /\ UNCHANGED << keyVars, appVars, recording, frames, stream, streamState >>

\* stop_recording's except, lines 126-129: self.recording = False; return None
AudioStopExcept(w) ==
    /\ WAt(w, "b128")
    /\ recording' = FALSE
    /\ StopReturns(w, NoFile, FALSE, << >>)
    /\ UNCHANGED << keyVars, appVars, frames, stream, streamState, files >>

\* Faulty variant: the callback appends whatever the recording flag says.
CallbackAppendsAlways == TRUE

\* callback, line 136: if self.recording and indata is not None (the driver
\* always passes a block)
CallbackAppends == recording

\* AudioManager.callback, run by the driver for the started stream s:
\* lines 136-138, if self.recording: self.frames.append(indata.copy())
AudioCallback(s) ==
    /\ streamState[s] = "active"
    /\ CallbackAppends => Len(frames) < MaxChunks
    /\ \E n \in ChunkFrames :
          frames' = IF CallbackAppends
                    THEN Append(frames, [stream |-> s, session |-> Len(resets),
                                         nframes |-> n])
                    ELSE frames
    /\ UNCHANGED << keyVars, appVars, workerVars, recording, stream,
                    streamState, files, shutVars >>

(***************************************************************************)
(* _recording_worker after the recording: transcription and insertion.     *)
(***************************************************************************)
\* What SpeechRecognizer.transcribe gives: text, or nothing (None, or only
\* white space).  Every exception is caught inside transcribe
\* (speech_recognizer.py lines 87-89), so none reaches the worker.
TranscribeOutcomes == {"text", "none"}
\* What TextInserter.insert_text gives: True, or False (its exceptions are
\* caught, text_inserter.py lines 38-40).
InsertOutcomes == {"true", "false"}

\* Faulty variant: line 139 lets an empty transcription through to insert_text.
AfterTranscribeUntested(outcome) == "w143"

\* Where line 139 (if transcribed_text and transcribed_text.strip()) leads.
AfterTranscribe(outcome) ==
    IF outcome = "text" THEN "w143" ELSE "w157"

\* line 137: transcribed_text = self.speech_recognizer.transcribe(audio_file)
Transcribe(w) ==
    /\ WAt(w, "w137")
    /\ \E outcome \in TranscribeOutcomes :
          /\ WGoto(w, AfterTranscribe(outcome))
          /\ WLog(w, << "transcribe", outcome >>)
    /\ UNCHANGED << keyVars, appVars, waudio, audioVars >>

\* Faulty variant: the clipboard method is tried whatever insert_text gave.
AfterInsertAlwaysFallback(outcome) == "w151"

\* Where line 145 (if success) leads.
AfterInsert(outcome) ==
    IF outcome = "true" THEN "w157" ELSE "w151"

\* line 143: success = self.text_inserter.insert_text(transcribed_text)
InsertText(w) ==
    /\ WAt(w, "w143")
    /\ \E outcome \in InsertOutcomes :
          /\ WGoto(w, AfterInsert(outcome))
          /\ WLog(w, << "insert", outcome >>)
    /\ UNCHANGED << keyVars, appVars, waudio, audioVars >>

\* line 151: self.text_inserter.insert_text_clipboard(transcribed_text); it
\* returns True or False (its exceptions are caught, text_inserter.py lines
\* 65-67) and the worker does not read the result
InsertClipboard(w) ==
    /\ WAt(w, "w151")
    /\ WGoto(w, "w157")
    /\ WLog(w, << "clipboard" >>)
    /\ UNCHANGED << keyVars, appVars, waudio, audioVars >>

\* lines 156-160: os.remove(audio_file), an error logged and passed over
RemoveFile(w) ==
    /\ WAt(w, "w157")
    /\ \/ files' = files \ {w}
       \/ files' = files
    /\ WGoto(w, "w168")
    /\ WLog(w, << "remove" >>)
    /\ UNCHANGED << keyVars, appVars, waudio, recording, frames, stream,
                    streamState >>

\* Faulty variant: the thread ends without resetting is_recording.
WorkerFinallyNoReset(w) ==
    /\ WAt(w, "w168")
    /\ WGoto(w, "done")
    /\ waudio' = [waudio EXCEPT ![w] = NoFile]
    /\ wlog' = [wlog EXCEPT ![w] = << >>]
    /\ UNCHANGED << keyVars, appVars, recording, frames, stream,
                    streamState, files >>

\* finally, line 168: self.is_recording = False; the thread ends, and its
\* locals with it (a temporary file that was not removed stays on disk)
WorkerFinally(w) ==
    /\ WAt(w, "w168")
    /\ is_recording' = FALSE
    /\ WGoto(w, "done")
    /\ waudio' = [waudio EXCEPT ![w] = NoFile]
    /\ wlog' = [wlog EXCEPT ![w] = << >>]
    /\ UNCHANGED << keyVars, running, hpc, recording, frames, stream,
                    streamState, files >>

WorkerStep(w) ==
    /\ \/ AudioStartCheck(w)
       \/ AudioStartReset(w)
       \/ AudioStartSetRecording(w)
       \/ AudioStartOpen(w)
       \/ AudioStartStream(w)
       \/ AudioStartExcept(w)
       \/ AudioStartExceptCheck(w)
       \/ AudioStartExceptClose(w)
       \/ AudioStartExceptClear(w)
       \/ WorkerLoopExit(w)
       \/ AudioStopCheck(w)
       \/ AudioStopCheckStream(w)
       \/ AudioStopStream(w)
       \/ AudioStopClose(w)
       \/ AudioStopClear(w)
       \/ AudioStopSetRecording(w)
       \/ SaveCheck(w)
       \/ SaveWrite(w)
       \/ AudioStopExcept(w)
       \/ Transcribe(w)
       \/ InsertText(w)
       \/ InsertClipboard(w)
       \/ RemoveFile(w)
       \/ WorkerFinally(w)
    /\ UNCHANGED shutVars

(***************************************************************************)
(* The coordinator's specification.  The keyboard is the user pressing the *)
(* configured combination: once the debounce window has passed, ctrl, alt  *)
(* and v go down (the last key-down runs _check_hotkey_combination and     *)
(* _trigger_callback) and are released again.                              *)
(***************************************************************************)
\* Handler and worker threads that have not ended.
Alive ==
    Cardinality({h \in Handlers : hpc[h] # "done"})
        + Cardinality({w \in Workers : wpc[w] # "done"})

HotkeyPress ==
    /\ listening
    /\ Len(triggers) < MaxTriggers
    /\ Alive < MaxAlive
    /\ CombinationDetected(hotkey_string, pressed_keys \cup {CtrlL, AltL, "v"})
    /\ LET t == IF now - last_trigger_time >= DebounceDelay
                THEN now ELSE last_trigger_time + DebounceDelay
       IN  now' = t /\ TriggerCallback(t)
    /\ UNCHANGED << hotkey_string, required_keys, pressed_keys, callback,
                    is_recording, running, workerVars, audioVars, shutVars,
                    resets >>

Init == DetectorInit(DefaultHotkey) /\ AppInit /\ svc_running = FALSE

Next ==
    \/ HotkeyPress
    \/ \E h \in Handlers : HandlerStep(h)
    \/ \E w \in Workers : WorkerStep(w)
    \/ \E s \in Workers : AudioCallback(s)

Spec == Init /\ [][Next]_vars

\* Thread scheduling is fair: a handler or worker thread that can take a step
\* eventually takes one (transcription, insertion and the device calls
\* return).  The user is not obliged to press the hotkey.
ThreadIds == 1..MaxTriggers
HandlerRuns(h) == h \in Handlers /\ HandlerStep(h)
WorkerRuns(w) == w \in Workers /\ WorkerStep(w)
Fairness ==
    /\ \A h \in ThreadIds : WF_vars(HandlerRuns(h))
    /\ \A w \in ThreadIds : WF_vars(WorkerRuns(w))

FairSpec == Init /\ [][Next]_vars /\ Fairness

(***************************************************************************)
(* Shutdown: VoiceToTextApp.stop() called by some thread while handlers    *)
(* and workers run, a signal handled by ServiceManager, and the main loop. *)
(* The end of the process (which ends the daemon threads) is not part of   *)
(* the model: it describes the program while the process lives.            *)
(***************************************************************************)
\* The worker's positions after its wait loop (line 126).
PastLoop == {"w130", "b106", "b107", "b108", "b109", "b111", "s142", "s148",
             "b128", "w137", "w143", "w151", "w157", "w168"}

SAt(pc) == spc = pc
SGoto(pc) == spc' = pc

\* stop, line 214: self.running = False
StopBegin ==
    /\ SAt("idle")
    /\ running' = FALSE
    /\ triggersAtStop' = Len(triggers)
    /\ recordingAtStop' =
          IF is_recording
          THEN {w \in 1..Len(wpc) : wpc[w] \notin PastLoop \cup {"done"}}
          ELSE {}
    /\ SGoto("t217")
    /\ UNCHANGED << keyVars, is_recording, hpc, workerVars, audioVars, mpc,
                    listening, svc_running, signalled, upc, device_tests >>

\* stop, line 217: if self.is_recording: self.stop_recording()
StopCheckRecording ==
    /\ SAt("t217")
    /\ SGoto(IF is_recording THEN "t110" ELSE "t222")
    /\ UNCHANGED << keyVars, appVars, workerVars, audioVars, mpc, listening,
                    svc_running, signalled, triggersAtStop,
                    recordingAtStop, upc, device_tests >>

\* stop_recording called by stop, line 110: if not self.is_recording: return
StopStopRecordingCheck ==
    /\ SAt("t110")
    /\ SGoto(IF is_recording THEN "t115" ELSE "t222")
    /\ UNCHANGED << keyVars, appVars, workerVars, audioVars, mpc, listening,
                    svc_running, signalled, triggersAtStop,
                    recordingAtStop, upc, device_tests >>

\* stop_recording called by stop, line 115: self.is_recording = False
StopStopRecordingSet ==
    /\ SAt("t115")
    /\ is_recording' = FALSE
    /\ SGoto("t222")
    /\ UNCHANGED << keyVars, running, hpc, workerVars, audioVars, mpc,
                    listening, svc_running, signalled, triggersAtStop,
                    recordingAtStop, upc, device_tests >>

\* stop_listening, hotkey_detector.py lines 165-175, for a running detector:
\* running = False (line 166), listener.stop() (line 168), then
\* pressed_keys.clear() (line 171); when listener.stop() raises, the except
\* clause (lines 174-175) logs and line 171 is not executed.
StopListeningBody(raises) ==
    /\ listening' = FALSE
    /\ pressed_keys' = IF raises THEN pressed_keys ELSE {}

\* stop, line 222: self.hotkey_detector.stop_listening()
StopListening ==
    /\ SAt("t222")
    /\ \E raises \in BOOLEAN : StopListeningBody(raises)
    /\ SGoto("t226")
    /\ UNCHANGED << hotkey_string, required_keys, last_trigger_time, callback,
                    now, histVars, appVars, workerVars, audioVars, mpc,
                    svc_running, signalled, triggersAtStop,
                    recordingAtStop, upc, device_tests >>

\* stop, lines 226-228: self.service_manager.stop_service(); stop returns
StopService ==
    /\ SAt("t226")
    /\ svc_running' = FALSE
    /\ SGoto("done")
    /\ UNCHANGED << keyVars, appVars, workerVars, audioVars, mpc, listening,
                    signalled, triggersAtStop,
                    recordingAtStop, upc, device_tests >>

\* The steps of a stop() call that has begun.
StopStep ==
    \/ StopCheckRecording
    \/ StopStopRecordingCheck
    \/ StopStopRecordingSet
    \/ StopListening
    \/ StopService

\* ServiceManager._signal_handler(signum, frame): self.stop_service(), which
\* sets ServiceManager.running False (service_manager.py lines 20-23, 51-62)
SignalHandler ==
    /\ ~signalled
    /\ signalled' = TRUE
    /\ svc_running' = FALSE
    /\ UNCHANGED << keyVars, appVars, workerVars, audioVars, spc, mpc,
                    listening, triggersAtStop,
                    recordingAtStop, upc, device_tests >>

\* _main_loop, line 200: while self.running ends
MainLoopExit ==
    /\ mpc = "loop"
    /\ ~running
    /\ mpc' = "exited"
    /\ UNCHANGED << keyVars, appVars, workerVars, audioVars, spc, listening,
                    svc_running, signalled, triggersAtStop,
                    recordingAtStop, upc, device_tests >>

\* The coordinator with shutdown: key presses, handlers, workers and the
\* audio callback go on while stop() runs.
NextShutdown ==
    \/ Len(triggers) < MaxStopTriggers /\ HotkeyPress
    \/ \E h \in Handlers : HandlerStep(h)
    \/ \E w \in Workers : WorkerStep(w)
    \/ \E s \in Workers : AudioCallback(s)
    \/ StopBegin
    \/ StopStep

SpecShutdown == Init /\ [][NextShutdown]_vars

\* VoiceToTextApp.start in foreground mode, or in daemon mode
\* (ServiceManager.start_service sets ServiceManager.running True)
InitSignal ==
    /\ DetectorInit(DefaultHotkey)
    /\ AppInit
    /\ svc_running \in BOOLEAN

\* The process under a stop signal: the listener delivers key events, the
\* signal handler and the main loop run, and stop() may be called.  The
\* handler threads of the Triggers are not scheduled in these runs, so no
\* recording is made and stop() at line 217 always skips stop_recording.
NextSignal ==
    \/ \E key \in EventKeys : KeyPress(key)
    \/ \E key \in EventKeys : KeyRelease(key)
    \/ SignalHandler
    \/ MainLoopExit
    \/ StopBegin
    \/ StopCheckRecording
    \/ StopListening
    \/ StopService

\* The main loop runs and a stop() call that has begun goes on.  Nobody is
\* obliged to send a signal, to call stop() or to touch the keyboard.
FairSpecSignal ==
    /\ InitSignal /\ [][NextSignal]_vars
    /\ WF_vars(MainLoopExit)
    /\ WF_vars(StopStep)

(***************************************************************************)
(* save_recording on its own: the worker of a stopped recording is at line *)
(* 142 with a buffer of up to MaxSaveChunks blocks of stream 1, in arrival *)
(* order; nothing else runs.                                               *)
(***************************************************************************)
\* Frame counts of the buffered blocks.
SaveChunkFrames == {80, 160, 320}

\* The buffers with n blocks.
SaveBuffers(n) ==
    { [i \in 1..n |-> [stream |-> 1, session |-> 1, nframes |-> sizes[i]]] :
        sizes \in [1..n -> SaveChunkFrames] }

InitSave ==
    /\ DetectorInit(DefaultHotkey)
    /\ is_recording = FALSE
    /\ running = TRUE
    /\ hpc = << "done", "done" >>
    /\ wpc = << "s142" >>
    /\ waudio = << NoFile >>
    /\ wlog = << << "start", "stop" >> >>
    /\ recording = FALSE
    /\ \E n \in 0..MaxSaveChunks : frames \in SaveBuffers(n)
    /\ stream = NoStream
    /\ streamState = << "closed" >>
    /\ files = {}
    /\ triggers = << ClockStart, ClockStart + DebounceDelay >>
    /\ lastEvent = "fired"
    /\ resets = << 1 >>
    /\ spc = "idle"
    /\ mpc = "loop"
    /\ listening = TRUE
    /\ svc_running = FALSE
    /\ signalled = FALSE
    /\ triggersAtStop = 0
    /\ recordingAtStop = {}
    /\ upc = "idle"
    /\ device_tests = << >>

NextSave ==
    \/ \E w \in Workers : SaveCheck(w) /\ UNCHANGED shutVars
    \/ \E w \in Workers : SaveWrite(w) /\ UNCHANGED shutVars

SpecSave == InitSave /\ [][NextSave]_vars

(***************************************************************************)
(* HotkeyDetector.update_hotkey(new_hotkey), called by another thread than *)
(* the listener's: two assignments, lines 179 and 180, with no lock.       *)
(***************************************************************************)
\* update_hotkey, line 179: self.hotkey_string = new_hotkey
UpdateHotkeySetString(new_hotkey) ==
    /\ upc = "idle"
    /\ hotkey_string' = new_hotkey
    /\ upc' = "u180"
    /\ UNCHANGED << required_keys, pressed_keys, last_trigger_time, callback,
                    now, histVars, appVars, workerVars, audioVars, spc, mpc,
                    listening, svc_running, signalled, triggersAtStop,
                    recordingAtStop, device_tests >>

\* update_hotkey, line 180: self.required_keys = self._parse_hotkey(new_hotkey)
UpdateHotkeySetKeys ==
    /\ upc = "u180"
    /\ required_keys' = ParseHotkey(hotkey_string)
    /\ upc' = "idle"
    /\ UNCHANGED << hotkey_string, pressed_keys, last_trigger_time, callback,
                    now, histVars, appVars, workerVars, audioVars, spc, mpc,
                    listening, svc_running, signalled, triggersAtStop,
                    recordingAtStop, device_tests >>

\* The listener thread handles key events while update_hotkey calls are made.
NextUpdateHotkey ==
    \/ \E key \in EventKeys : KeyPress(key)
    \/ \E key \in EventKeys : KeyRelease(key)
    \/ \E new_hotkey \in HotkeyConfigs : UpdateHotkeySetString(new_hotkey)
    \/ UpdateHotkeySetKeys

SpecUpdateHotkey == InitHotkey /\ [][NextUpdateHotkey]_vars

(***************************************************************************)
(* The detector's listener, stopped and started again by its owner:       *)
(* HotkeyDetector.start_listening (lines 140-158) and stop_listening       *)
(* (lines 160-175), with the listener's key events in between.             *)
(***************************************************************************)
\* stop_listening: line 162, if not self.running: return
DetectorStopListening ==
    /\ listening
    /\ \E raises \in BOOLEAN : StopListeningBody(raises)
    /\ UNCHANGED << hotkey_string, required_keys, last_trigger_time, callback,
                    now, histVars, appVars, workerVars, audioVars, spc, mpc,
                    svc_running, signalled, triggersAtStop,
                    recordingAtStop, upc, device_tests >>

\* start_listening: line 142, if self.running: return; running = True (line
\* 147) and a new Listener is started (lines 148-152); when that raises,
\* running is set back to False (line 157). pressed_keys is not assigned.
DetectorStartListening ==
    /\ ~listening
    /\ \E started \in BOOLEAN : listening' = started
    /\ UNCHANGED << detVars, histVars, appVars, workerVars, audioVars, spc,
                    mpc, svc_running, signalled, triggersAtStop,
                    recordingAtStop, upc, device_tests >>

NextListener ==
    \/ \E key \in EventKeys : KeyPress(key)
    \/ \E key \in EventKeys : KeyRelease(key)
    \/ DetectorStopListening
    \/ DetectorStartListening

SpecListener == InitHotkey /\ [][NextListener]_vars

(***************************************************************************)
(* AudioManager.test_audio_device, lines 225-252, called while the         *)
(* application runs.  It records one second with sd.rec and sd.wait (lines *)
(* 231-239) whatever the state of the AudioManager, and reads or assigns   *)
(* none of recording, frames and stream.                                   *)
(***************************************************************************)
\* test_audio_device: `data` is whether sd.rec returned samples (return
\* True, line 245); without them, or when sd.rec raises, it returns False
\* (lines 248, 252).
TestAudioDevice ==
    /\ Len(device_tests) < MaxDeviceTests
    /\ \E data \in BOOLEAN :
          device_tests' = Append(device_tests,
                                 [ capturing |-> recording,
                                   rec_called |-> TRUE,
                                   result |-> data ])
    /\ UNCHANGED << keyVars, appVars, workerVars, audioVars, spc, mpc,
                    listening, svc_running, signalled, triggersAtStop,
                    recordingAtStop, upc >>

NextDeviceTest == Next \/ TestAudioDevice

SpecDeviceTest == Init /\ [][NextDeviceTest]_vars

(***************************************************************************)
(* Properties of the hotkey detector (checked under SpecHotkey).           *)
(***************************************************************************)
\* A Trigger was emitted by this step.
TriggerEmitted == Len(triggers') = Len(triggers) + 1

\* A key-down event was handled by this step.
KeyDown == \E key \in EventKeys : KeyPress(key)

\* Every key of `required` is held in `pressed`: a modifier by its left or
\* right variant, any other key exactly.
RequiredHeld(required, pressed) ==
    \A k \in required :
        IF k \in {CtrlL, CtrlR} THEN pressed \cap {CtrlL, CtrlR} # {}
        ELSE IF k \in {AltL, AltR} THEN pressed \cap {AltL, AltR} # {}
        ELSE IF k \in {ShiftL, ShiftR} THEN pressed \cap {ShiftL, ShiftR} # {}
        ELSE k \in pressed

\* C4: any two emitted Triggers are at least debounce_delay (500 ms) apart,
\* whatever the sequence of key-down and key-up events.
C4_TriggersDebounced ==
    \A i, j \in 1..Len(triggers) :
        i < j => triggers[j] - triggers[i] >= DebounceDelay

\* C4 witness: two Triggers were emitted and a later key-down with the
\* combination still held was suppressed inside the window.
C4_Witness ==
    /\ Len(triggers) >= 2
    /\ lastEvent = "suppressed"
    /\ now - last_trigger_time < DebounceDelay

\* C5 (as claimed): a Trigger is emitted only by an event after which every
\* required key of the parsed hotkey is held.
C5_TriggerOnlyWhenRequiredHeld ==
    [][TriggerEmitted => RequiredHeld(required_keys, pressed_keys')]_vars

\* C6 (as claimed): for every configured hotkey that parses to some key, a
\* key-down after which all required keys are held, with the debounce window
\* elapsed, emits a Trigger.
C6_RequiredHeldTriggers ==
    [][(/\ required_keys # {}
        /\ RequiredHeld(required_keys, pressed_keys')
        /\ now - last_trigger_time >= DebounceDelay
        /\ KeyDown) => TriggerEmitted]_vars

\* The keys the default hotkey parses to: ctrl, alt and v.
DefaultRequiredKeys == ParseHotkey(DefaultHotkey)

\* C7: with hotkey ctrl+alt+v, a key-down at time t after which ctrl, alt and
\* v are held emits a Trigger iff t - last_trigger_time >= 500 ms (so the
\* first one always does); an emitted Trigger sets last_trigger_time to t
\* whether or not a callback is registered, a suppressed one leaves it.
C7_DebounceExact ==
    [][(/\ required_keys = DefaultRequiredKeys
        /\ RequiredHeld(required_keys, pressed_keys')
        /\ KeyDown)
       => /\ TriggerEmitted <=> (now - last_trigger_time >= DebounceDelay)
          /\ triggers = << >> => TriggerEmitted
          /\ TriggerEmitted =>
                /\ last_trigger_time' = now
                /\ triggers' = Append(triggers, now)
          /\ ~TriggerEmitted =>
                /\ last_trigger_time' = last_trigger_time
                /\ triggers' = triggers]_vars

\* C7 witness: a second Trigger 600 ms after the first, one of the two
\* emitted with no callback registered, and a repeat 100 ms later suppressed.
C7_Witness ==
    /\ required_keys = DefaultRequiredKeys
    /\ Len(triggers) = 2
    /\ triggers[2] - triggers[1] = DebounceDelay + 1
    /\ Len(hpc) = 1
    /\ lastEvent = "suppressed"
    /\ now = last_trigger_time + 1
    /\ last_trigger_time = triggers[2]

(***************************************************************************)
(* Properties of the coordinator (checked under Spec, C9 under FairSpec).  *)
(***************************************************************************)
AliveWorkers == {w \in Workers : wpc[w] # "done"}
AliveHandlers == {h \in Handlers : hpc[h] # "done"}

\* The session states of the specification, read off the program's state:
\* Idle: not recording and no worker running; Recording: is_recording;
\* Finalizing: the recording was stopped and a worker has not finished.
Idle == ~is_recording /\ AliveWorkers = {}
Finalizing == ~is_recording /\ AliveWorkers # {}

Count(log, e) == Cardinality({i \in 1..Len(log) : log[i] = e})
Logged(log, e) == \E i \in 1..Len(log) : log[i] = e

\* C1 (as claimed): a step of a Trigger's handler taken while the session is
\* Finalizing leaves the session state unchanged and creates no worker.
C1_TriggerDroppedWhileFinalizing ==
    [][\A h \in Handlers :
          (Finalizing /\ HandlerStep(h))
             => /\ is_recording' = is_recording
                /\ Len(wpc') = Len(wpc)]_vars

\* C2 (as claimed): the handlers' accesses to the session state are
\* serialized: no two handler threads are at the same time past the
\* "not recording" test of start_recording and about to start a worker.
C2_HandlersSerialized ==
    \A h1, h2 \in Handlers :
        (hpc[h1] \in {"s99", "s102"} /\ hpc[h2] \in {"s99", "s102"}) => h1 = h2

\* AudioManager.start_recording returns False to worker w by this step.
StartFailsStep(w) == wpc[w] \in {"w123", "a88", "a93"} /\ wpc'[w] = "w126"

\* C3 (as claimed): when the recording started by a Trigger in Idle (one
\* worker, no other thread) fails to start, the session is Idle again.
C3_FailedStartLeavesIdle ==
    [][\A w \in Workers :
          (StartFailsStep(w) /\ Len(hpc) = 1 /\ AliveHandlers = {})
             => is_recording' = FALSE]_vars

\* The worker's positions inside AudioManager.start_recording, inside
\* AudioManager.stop_recording, and after it.
InStart == {"a64", "a65", "a68", "a77", "a87", "a88", "a90", "a93"}
InStop == {"b106", "b107", "b108", "b109", "b111", "s142", "s148", "b128"}
PostStop == {"w137", "w143", "w151", "w157", "w168"}

\* C8: a two-Trigger cycle.  The first Trigger, handled in Idle, moves the
\* session to Recording with one worker; a later one, handled alone in
\* Recording, moves it to Finalizing; and the worker of a cycle makes exactly one
\* start_recording call and then exactly one stop_recording call.
C8_TwoTriggerCycle ==
    /\ [](\A w \in Workers :
            LET log == wlog[w]
            IN  /\ wpc[w] = "w123" => log = << >>
                /\ wpc[w] \in InStart \cup {"w126", "w130"} => log = << "start" >>
                /\ wpc[w] \in InStop => log = << "start", "stop" >>
                /\ wpc[w] \in PostStop =>
                      /\ Len(log) >= 2
                      /\ log[1] = "start" /\ log[2] = "stop"
                      /\ \A i \in 3..Len(log) : log[i] \notin {"start", "stop"})
    /\ [][\A h \in Handlers :
            (/\ Len(hpc) = 1
             /\ hpc[h] = "s102" /\ hpc'[h] = "done"
             /\ AliveWorkers = {})
               => is_recording' /\ AliveWorkers' = {Len(wpc')}]_vars
    /\ [][\A h \in Handlers :
            (/\ hpc[h] = "p115" /\ hpc'[h] = "done"
             /\ AliveHandlers = {h}
             /\ Cardinality(AliveWorkers) = 1)
               => Finalizing' /\ AliveWorkers' = AliveWorkers]_vars

\* C8 witness: two Triggers were handled and the one worker has run the
\* whole pipeline, its start and stop calls made, its file removed.
C8_Witness ==
    /\ Len(triggers) = 2
    /\ AliveHandlers = {}
    /\ Len(wpc) = 1
    /\ wpc[1] = "w168"
    /\ Logged(wlog[1], "remove")
    /\ Count(wlog[1], "start") = 1
    /\ Count(wlog[1], "stop") = 1

\* The worker has left its wait loop: the stop was seen.
WorkerStopping(w) == w \in Workers /\ wpc[w] \in {"w130"} \cup InStop \cup PostStop
WorkerDone(w) == w \in Workers /\ wpc[w] = "done"

\* C9: a worker that has seen the stop finishes, whatever the transcription
\* and the insertion give; the step that finishes it leaves the session
\* not recording; and with no thread running the session is Idle, so that
\* the next Trigger starts a recording.
C9_SessionReturnsToIdle ==
    /\ \A w \in ThreadIds : WorkerStopping(w) ~> WorkerDone(w)
    /\ [][\A w \in Workers :
            (wpc[w] # "done" /\ wpc'[w] = "done") => ~is_recording']_vars
    /\ []((AliveHandlers = {} /\ AliveWorkers = {}) => Idle)

\* C9 witness: after a first session returned to Idle, the next Trigger
\* started a second one, whose transcription produced nothing; its worker
\* has removed the file and is in its finally clause.
C9_Witness ==
    /\ Len(wpc) = 2
    /\ wpc[1] = "done"
    /\ wpc[2] = "w168"
    /\ wlog[2] = << "start", "stop", "transcribe", "none", "remove" >>

\* C10: a stop with zero buffered chunks returns no audio artifact, and the
\* worker calls transcribe only with an artifact made of at least one chunk;
\* without one it goes to the end of the cycle.
C10_NoChunksNoTranscribe ==
    /\ [][\A w \in Workers :
            (/\ frames = << >>
             /\ wpc[w] \in {"s142", "s148"}
             /\ wpc'[w] # wpc[w])
               => waudio'[w] = NoFile /\ wpc'[w] = "w168"]_vars
    /\ [](\A w \in Workers :
            (wpc[w] \in PostStop \ {"w168"} \/ Logged(wlog[w], "transcribe"))
               => /\ waudio[w] # NoFile
                  /\ Len(waudio[w]) >= 1)
    /\ [](\A w \in Workers :
            (wpc[w] = "w168" /\ waudio[w] = NoFile)
               => ~Logged(wlog[w], "transcribe"))

\* C10 witness: a stream was opened, started, stopped and closed with no
\* chunk delivered; the cycle ended with the start and stop calls only.
C10_Witness ==
    \E w \in Workers :
        /\ wpc[w] = "w168"
        /\ streamState[w] = "closed"
        /\ frames = << >>
        /\ waudio[w] = NoFile
        /\ wlog[w] = << "start", "stop" >>

(***************************************************************************)
(* Properties of the shutdown (checked under SpecShutdown, C14 under       *)
(* FairSpecSignal).                                                        *)
(***************************************************************************)
\* C11 (as claimed): the recording in progress when stop() begins is
\* discarded: its worker never calls transcribe and inserts no text.
C11_ShutdownDiscardsRecording ==
    \A w \in recordingAtStop :
        /\ ~Logged(wlog[w], "transcribe")
        /\ ~Logged(wlog[w], "insert")
        /\ ~Logged(wlog[w], "clipboard")

\* C12 (as claimed): stop() does not complete while a recording worker is
\* still stopping the audio, transcribing or inserting.
C12_StopWaitsForWorker ==
    spc = "done" => \A w \in 1..Len(wpc) : wpc[w] \notin PastLoop

\* C13 (as claimed): once stop() has begun, no Trigger emitted afterwards
\* starts a recording: its handler never gets into start_recording as far as
\* setting is_recording and creating a worker.
C13_NoStartAfterStop ==
    spc # "idle" =>
        \A h \in 1..Len(hpc) : h > triggersAtStop => hpc[h] # "s102"

\* C14 (as claimed): a stop signal handled by ServiceManager._signal_handler
\* eventually makes running False and reaches HotkeyDetector.stop_listening.
C14_SignalStopsApp == signalled ~> (~running /\ ~listening)

(***************************************************************************)
(* Properties of the pipeline of one worker (checked under Spec).          *)
(***************************************************************************)
\* The worker is past its insertion steps (lines 143-151).
PastInsertion == {"w157", "w168"}

\* C15: for a non-empty transcription insert_text is called exactly once;
\* when it returns False insert_text_clipboard is attempted exactly once, and
\* when it returns True insert_text_clipboard is not called.
C15_InsertOnceThenFallback ==
    \A w \in 1..Len(wpc) :
        /\ Count(wlog[w], "insert") <= 1
        /\ Count(wlog[w], "clipboard") <= 1
        /\ (Logged(wlog[w], "text") /\ wpc[w] \in PastInsertion \cup {"w151"})
              => Count(wlog[w], "insert") = 1
        /\ (Logged(wlog[w], "false") /\ wpc[w] \in PastInsertion)
              => Count(wlog[w], "clipboard") = 1
        /\ Logged(wlog[w], "true") => ~Logged(wlog[w], "clipboard")
        /\ Logged(wlog[w], "clipboard") => Logged(wlog[w], "false")
        /\ Logged(wlog[w], "insert") => Logged(wlog[w], "text")

\* C15 witness: insert_text returned False for a transcribed text and the
\* clipboard method was tried; the worker is about to remove the file.
C15_Witness ==
    \E w \in 1..Len(wpc) :
        /\ wpc[w] = "w157"
        /\ wlog[w] = << "start", "stop", "transcribe", "text", "insert",
                       "false", "clipboard" >>

\* C16: when transcribe returns nothing, neither insert_text nor
\* insert_text_clipboard is called, and the session returns to Idle: the
\* worker reaches its end and its last step leaves is_recording False
\* (checked under FairSpec).
C16_NothingTranscribedNothingInserted ==
    /\ [](\A w \in 1..Len(wpc) :
             Logged(wlog[w], "none") =>
                 /\ ~Logged(wlog[w], "insert")
                 /\ ~Logged(wlog[w], "clipboard")
                 /\ wpc[w] \in PastInsertion)
    /\ \A w \in ThreadIds :
          (w <= Len(wpc) /\ Logged(wlog[w], "none"))
              ~> (w <= Len(wpc) /\ wpc[w] = "done")
    /\ [][\A w \in 1..Len(wpc) :
             (Logged(wlog[w], "none") /\ wpc'[w] = "done") => ~is_recording']_vars

\* C16 witness: the transcription of the first session produced nothing and
\* its worker, having called neither insertion method, is at its finally
\* clause.
C16_Witness ==
    /\ Len(wpc) = 1
    /\ wpc[1] = "w168"
    /\ Logged(wlog[1], "none")

\* C17 (as claimed): an artifact is transcribed at most once, and the
\* temporary file of a worker is removed before its cycle ends: none remains
\* when the worker is at its finally clause or has ended.
C17_ArtifactRemovedBeforeCycleEnds ==
    \A w \in 1..Len(wpc) :
        /\ Count(wlog[w], "transcribe") <= 1
        /\ wpc[w] \in {"w168", "done"} => w \notin files

(***************************************************************************)
(* Properties of the audio buffer (checked under Spec).                    *)
(***************************************************************************)
\* C18: a call of the audio callback appends its chunk to the buffer exactly
\* when recording is True at the time of the call; a call made after
\* recording was set False leaves the buffer as it is.
C18_CallbackAppendsIffRecording ==
    [][\A s \in 1..Len(streamState) :
          AudioCallback(s) =>
              IF recording
              THEN /\ Len(frames') = Len(frames) + 1
                   /\ SubSeq(frames', 1, Len(frames)) = frames
                   /\ frames'[Len(frames')].stream = s
              ELSE frames' = frames]_vars

\* C18 witness: recording was set False while a stream is still delivering
\* (stream.stop() failed), and the buffer holds the chunk that stream's
\* callback appended while recording was True.
C18_Witness ==
    \E s \in 1..Len(streamState) :
        /\ streamState[s] = "active"
        /\ ~recording
        /\ frames # << >>
        /\ frames[1].stream = s
        /\ ENABLED AudioCallback(s)

\* The frame count of the first n chunks of a buffer.
RECURSIVE FrameSum(_, _)
FrameSum(chunks, n) ==
    IF n = 0 THEN 0 ELSE FrameSum(chunks, n - 1) + chunks[n].nframes

\* C19 (checked under SpecSave): the artifact of save_recording holds the
\* buffered chunks one after the other in arrival order: frame k of chunk i
\* is at place s1 + ... + s(i-1) + k; its frame count is s1 + ... + sN and its
\* duration that count divided by the sample rate.
C19_ArtifactIsConcatenation ==
    \A w \in 1..Len(wpc) :
        wpc[w] = "w137" =>
            /\ Len(waudio[w]) = FrameSum(frames, Len(frames))
            /\ \A i \in 1..Len(frames) : \A k \in 1..frames[i].nframes :
                  waudio[w][FrameSum(frames, i - 1) + k]
                      = [stream |-> frames[i].stream,
                         session |-> frames[i].session, k |-> k]
            /\ Duration(waudio[w]) * SampleRate
                  = FrameSum(frames, Len(frames)) * MicrosPerSecond

\* C19 witness: three chunks of 160 frames at 16000 Hz were saved: the file
\* has 480 frames and lasts 30 ms.
C19_Witness ==
    /\ wpc = << "w137" >>
    /\ Len(frames) = 3
    /\ \A i \in 1..3 : frames[i].nframes = 160
    /\ Len(waudio[1]) = 480
    /\ Duration(waudio[1]) = 30000

\* The session of the buffer that worker w's start_recording began (0: none).
SessionOf(w) ==
    IF \E n \in 1..Len(resets) : resets[n] = w
    THEN CHOOSE n \in 1..Len(resets) : resets[n] = w
    ELSE 0

\* C20: a start_recording that goes through resets the chunk buffer: the
\* buffer never holds a chunk appended before the latest reset, and the
\* artifact saved by the worker of a session holds no chunk of a session
\* before its own.
C20_NoChunkOfEarlierSession ==
    /\ \A i \in 1..Len(frames) : frames[i].session = Len(resets)
    /\ \A w \in 1..Len(wpc) :
          SessionOf(w) > 0 =>
              \A j \in 1..Len(waudio[w]) : waudio[w][j].session >= SessionOf(w)

\* C20 witness: the first session buffered a chunk and its worker saved it;
\* a second start_recording went through and the buffer now holds a chunk
\* of the second session only.
C20_Witness ==
    /\ Len(resets) = 2
    /\ wpc[resets[2]] = "w126"
    /\ frames # << >>
    /\ waudio[resets[1]] # NoFile
    /\ waudio[resets[1]][1].session = 1

(***************************************************************************)
(* Properties of the AudioManager's calls (checked under Spec).            *)
(***************************************************************************)
\* C21: a rejected AudioManager call is a no-op.  start_recording called
\* while capturing returns at once (False) and stop_recording called while
\* not capturing returns no artifact; both leave the recording flag, the
\* chunk buffer and the stream as they were.
C21_RejectedCallsAreNoOps ==
    [][\A w \in 1..Len(wpc) :
          /\ (wpc[w] = "w123" /\ wpc'[w] # "w123" /\ recording)
                => /\ wpc'[w] = "w126"
                   /\ UNCHANGED << recording, frames, stream, streamState >>
          /\ (wpc[w] = "w130" /\ wpc'[w] # "w130" /\ ~recording)
                => /\ waudio'[w] = NoFile
                   /\ wpc'[w] = "w168"
                   /\ UNCHANGED << recording, frames, stream, streamState >>]_vars

\* C21 witness: worker w called start_recording while another worker's
\* capture was running and was sent back without a reset or a stream of its
\* own; the running capture still has its stream.
C21_Witness ==
    \E w \in 1..Len(wpc) :
        /\ wpc[w] = "w126"
        /\ SessionOf(w) = 0
        /\ streamState[w] = "none"
        /\ recording
        /\ stream # NoStream
        /\ streamState[stream] = "active"

\* The worker's positions in the except clause of start_recording (lines
\* 85-94).
StartFailing == {"a87", "a88", "a90", "a93"}

\* C22: when opening or starting the stream fails, start_recording (called
\* with no other worker alive) does not try again: from its except clause it
\* only goes on to return, and it returns with the AudioManager not
\* capturing and without a stream; the stream the AudioManager held for this
\* call, if any, is closed.
C22_FailedStartReportsOnce ==
    [][\A w \in 1..Len(wpc) :
          (wpc[w] \in StartFailing /\ wpc'[w] # wpc[w] /\ AliveWorkers = {w})
             => /\ wpc'[w] \in StartFailing \cup {"w126"}
                /\ wpc'[w] = "w126" =>
                      /\ ~recording'
                      /\ stream' = NoStream
                      /\ stream = w => streamState'[w] = "closed"
                      /\ Len(wpc) = 1 =>
                            streamState'[w] \in {"none", "closed"}]_vars

\* C22 witness: the start of the first session failed and left no stream;
\* the start_recording of a later session went through and captures.
C22_Witness ==
    /\ Len(wpc) = 2
    /\ wpc[1] = "done"
    /\ streamState[1] \in {"none", "closed"}
    /\ resets = << 1, 2 >>
    /\ frames = << >>
    /\ wpc[2] = "w126"
    /\ streamState[2] = "active"
    /\ stream = 2
    /\ recording

(***************************************************************************)
(* Properties of the detector's configuration and listener.                *)
(***************************************************************************)
\* C23 (as claimed, checked under SpecUpdateHotkey): a key-down handled by
\* the listener thread never finds the hotkey half-replaced: required_keys
\* is the parse of hotkey_string whenever a key-down is evaluated.
C23_UpdateHotkeyAtomic ==
    [][KeyDown => required_keys = ParseHotkey(hotkey_string)]_vars

\* C24 (as claimed, checked under SpecListener): whenever the listener is
\* stopped, and so at every start_listening, pressed_keys is empty.
C24_StoppedListenerHasNoKeys == ~listening => pressed_keys = {}

\* C25 (checked under SpecHotkey): a key-up event for a key that is not in
\* pressed_keys changes nothing: pressed_keys, last_trigger_time, the
\* session state and the Triggers emitted are all as before.
C25_ReleaseOfUnpressedKeyIsNoOp ==
    [][\A key \in EventKeys :
          (KeyRelease(key) /\ PressedId(key) \notin pressed_keys)
             => UNCHANGED vars]_vars

\* A Trigger has been emitted, some key is held and a key-up event for
\* another key, not held, can be delivered.
C25_Witness ==
    /\ Len(triggers) >= 1
    /\ last_trigger_time > 0
    /\ \E key \in EventKeys :
          /\ PressedId(key) \notin pressed_keys
          /\ pressed_keys # {}
          /\ ENABLED KeyRelease(key)

\* C26 (as claimed, checked under SpecHotkey): with a hotkey string that
\* parses to no key, a key-down after which ctrl, alt and v are held, with
\* the debounce window elapsed, emits a Trigger.
C26_UnparsableFallsBackToDefault ==
    [][(/\ ParseHotkey(hotkey_string) = {}
        /\ RequiredHeld(DefaultRequiredKeys, pressed_keys')
        /\ now - last_trigger_time >= DebounceDelay
        /\ KeyDown) => TriggerEmitted]_vars

\* C27 (as claimed, checked under SpecDeviceTest): test_audio_device called
\* while the AudioManager is capturing returns False without opening the
\* device, and leaves recording, frames and stream as they are.
C27_DeviceTestExclusive ==
    [][(/\ Len(device_tests') = Len(device_tests) + 1
        /\ recording
        /\ stream # NoStream
        /\ streamState[stream] = "active")
          => /\ ~device_tests'[Len(device_tests')].result
             /\ ~device_tests'[Len(device_tests')].rec_called
             /\ UNCHANGED << recording, frames, stream, streamState >>]_vars

(***************************************************************************)
(* Properties of Trigger handling beside a running pipeline (under Spec).  *)
(***************************************************************************)
\* C28 (checked under Spec): while a worker is transcribing or inserting,
\* the qualifying key-down can still be handled, it emits a Trigger and
\* starts the coordinator's handler, and every handler that has not returned
\* can take its next step: none waits for the pipeline.
C28_PipelineDoesNotBlockTriggers ==
    (\E w \in Workers : wpc[w] \in InPipeline) =>
        /\ (listening /\ Len(triggers) < MaxTriggers /\ Alive < MaxAlive)
              => ENABLED (/\ HotkeyPress
                          /\ TriggerEmitted
                          /\ Len(hpc') = Len(hpc) + 1)
        /\ \A h \in Handlers : hpc[h] # "done" => ENABLED HandlerStep(h)

\* The first worker is inserting its text, the third Trigger's handler has
\* returned and the worker it started has begun the next session.
C28_Witness ==
    /\ Len(wpc) = 2
    /\ wpc[1] = "w143"
    /\ Len(triggers) = 3
    /\ Len(hpc) = 3
    /\ hpc[3] = "done"
    /\ wpc[2] # "done"
    /\ is_recording

(***************************************************************************)
(* Properties of overlapping sessions (checked under Spec).                *)
(***************************************************************************)
\* The input streams opened and not yet closed.
OpenStreams ==
    {s \in 1..Len(streamState) : streamState[s] \in {"open", "active"}}

\* C29 (as claimed): at most one input stream is open at any time, and an
\* open stream is the one AudioManager.stream holds: it was not replaced by
\* a newer stream, nor dropped, while still open.
C29_AtMostOneStreamOpen ==
    /\ Cardinality(OpenStreams) <= 1
    /\ \A s \in OpenStreams : stream = s

\* C30 (as claimed): the reset in a finishing worker's finally block leaves
\* a later session alone: when a worker ends while a session started after
\* its own was stopped is recording (is_recording is True again and a later
\* worker is starting or in its wait loop), is_recording stays True.
C30_FinalResetSparesLaterSession ==
    [][\A w \in 1..Len(wpc) :
          (/\ wpc[w] = "w168" /\ wpc'[w] = "done"
           /\ is_recording
           /\ \E v \in (w + 1)..Len(wpc) : wpc[v] \notin PostStop \cup {"done"})
             => is_recording']_vars

\* Worker w is in save_recording (lines 142-148), about to read the buffer.
InSave(w) == wpc[w] \in {"s142", "s148"}

\* C31 (as claimed): the artifact a worker's stop_recording returns is made
\* of the chunks of that worker's own session only, and a start_recording
\* that resets the buffer while another worker is in save_recording does not
\* take chunks away from the buffer being saved.
C31_ArtifactIsTheSessionsChunks ==
    /\ [](\A w \in ThreadIds :
             (w \in Workers /\ SessionOf(w) > 0) =>
                 \A j \in 1..Len(waudio[w]) :
                     waudio[w][j].session = SessionOf(w))
    /\ [][\A v \in 1..Len(wpc) :
             (/\ wpc[v] = "a64" /\ wpc'[v] = "a65"
              /\ \E w \in 1..Len(wpc) : InSave(w))
                => frames' = frames]_vars

\* No worker is inside AudioManager.start_recording or stop_recording.
NoCallInProgress ==
    \A w \in 1..Len(wpc) : wpc[w] \notin InStart \cup InStop

\* C32 (as claimed): whenever no start_recording or stop_recording call is
\* in progress, the AudioManager holds a stream exactly when recording is
\* True; and when the session is Idle with no worker alive, the AudioManager
\* is not capturing.
C32_StreamHeldIffRecording ==
    /\ NoCallInProgress => (stream # NoStream <=> recording)
    /\ Idle => ~recording

=============================================================================
